---- MODULE Spec2Model ----
(***************************************************************************)
(* Model of useNdvLayout (packages/frontend/editor-ui, features/ndv/panel):*)
(* the three-panel width allocation of the node details view, its          *)
(* normalizer safePanelWidth, the localStorage persistence and the two     *)
(* gestures onResize / onDrag.                                             *)
(*                                                                         *)
(* Numbers.  A JavaScript number is a record [k, v]: k = "num" carries the *)
(* value v, k = "nan" is NaN, k = "inf" / "ninf" are +/-Infinity and       *)
(* k = "null" is a JSON null read back from the store.  Percentages are    *)
(* fixed-point integers counted in 1/Unit of a percent, so 36.8 % is 368;  *)
(* pixels are plain integers.  Divisions round down to the fixed-point     *)
(* grid; every other operation is exact.                                   *)
(***************************************************************************)
EXTENDS Integers, FiniteSets, Sequences, TLC

VARIABLES
    panelWidthPercentage, \* the live allocation [left, main, right]
    containerWidth,       \* observed container width in pixels, 0 = unknown
    paneType,             \* options.paneType
    hasInputPanel,        \* options.hasInputPanel, read at each call; no
                          \* operation of the composable changes it
    localStorage,         \* key -> stored entry
    last,                 \* the operation that produced this state, its
                          \* arguments, the operation before it and the
                          \* state it started from
    steps                 \* number of operations performed so far

vars == <<panelWidthPercentage, containerWidth, paneType, hasInputPanel,
          localStorage, last, steps>>

----------------------------------------------------------------------------
(* Bounds of the exploration *)

MaxSteps == 2

(* Fixed-point scale: units per percent *)
Unit == 10

Hundred == 100 * Unit

(* Program constants (pixels) *)
MIN_MAIN_PANEL_WIDTH_PX == 368
MIN_PANEL_WIDTH_PX == 120
DEFAULT_INPUTLESS_MAIN_WIDTH_PX == 480
DEFAULT_WIDE_MAIN_WIDTH_PX == 640
DEFAULT_REGULAR_MAIN_WIDTH_PX == 420

(* Inputs explored *)
Widths == {0, 500, 1000}
Variants == {"regular", "wide", "inputless", "dragless"}
ResizeWidths == {300, 500, 600, 700}
Directions == {"left", "right", "top"}
DragPositions == {300, 500, 900}

----------------------------------------------------------------------------
(* JavaScript numbers *)

Num(n) == [k |-> "num", v |-> n]
NaN == [k |-> "nan", v |-> 0]
Infinity == [k |-> "inf", v |-> 0]
NegInfinity == [k |-> "ninf", v |-> 0]
Null == [k |-> "null", v |-> 0]

IsFinite(x) == x.k = "num"

Max(a, b) == IF a >= b THEN a ELSE b

(* Operands of the arithmetic below are finite numbers or NaN: stored      *)
(* values are validated and candidates are sanitized before any arithmetic.*)
Add(a, b) == IF IsFinite(a) /\ IsFinite(b) THEN Num(a.v + b.v) ELSE NaN
Sub(a, b) == IF IsFinite(a) /\ IsFinite(b) THEN Num(a.v - b.v) ELSE NaN
MathMax(a, b) == IF IsFinite(a) /\ IsFinite(b) THEN Num(Max(a.v, b.v)) ELSE NaN
Lt(a, b) == IsFinite(a) /\ IsFinite(b) /\ a.v < b.v
Gt(a, b) == IsFinite(a) /\ IsFinite(b) /\ a.v > b.v
Half(a) == IF IsFinite(a) THEN Num(a.v \div 2) ELSE NaN

Size(l, m, r) == [left |-> l, main |-> m, right |-> r]
Pct(l, m, r) == Size(Num(l * Unit), Num(m * Unit), Num(r * Unit))

----------------------------------------------------------------------------
(* Unit conversion *)

pixelsToPercentage(pixels, w) ==
    IF w <= 0 THEN 0 ELSE (pixels * Hundred) \div w

minMainPanelWidthPercentage(w) == pixelsToPercentage(MIN_MAIN_PANEL_WIDTH_PX, w)
minPanelWidthPercentage(w) == pixelsToPercentage(MIN_PANEL_WIDTH_PX, w)

(* Variant: the regular fallback triple of a zero width gives main 40 *)
defaultPanelSize_wideFallbackMain(variant, w) ==
    IF w <= 0
    THEN CASE variant = "inputless" -> Size(Num(0), Num(40 * Unit), Num(60 * Unit))
           [] variant = "wide" -> Size(Num(235), Num(53 * Unit), Num(235))
           [] OTHER -> Size(Num(325), Num(40 * Unit), Num(325))
    ELSE CASE variant = "inputless" ->
                LET main == pixelsToPercentage(DEFAULT_INPUTLESS_MAIN_WIDTH_PX, w)
                IN Size(Num(0), Num(main), Num(Hundred - main))
           [] variant = "wide" ->
                LET main == pixelsToPercentage(DEFAULT_WIDE_MAIN_WIDTH_PX, w)
                    panels == (Hundred - main) \div 2
                IN Size(Num(panels), Num(main), Num(panels))
           [] OTHER ->
                LET main == pixelsToPercentage(DEFAULT_REGULAR_MAIN_WIDTH_PX, w)
                    panels == (Hundred - main) \div 2
                IN Size(Num(panels), Num(main), Num(panels))

(* Default allocation of a variant at a container width *)
defaultPanelSize(variant, w) ==
    IF w <= 0
    THEN CASE variant = "inputless" -> Size(Num(0), Num(40 * Unit), Num(60 * Unit))
           [] variant = "wide" -> Size(Num(235), Num(53 * Unit), Num(235))
           [] OTHER -> Size(Num(325), Num(35 * Unit), Num(325))
    ELSE CASE variant = "inputless" ->
                LET main == pixelsToPercentage(DEFAULT_INPUTLESS_MAIN_WIDTH_PX, w)
                IN Size(Num(0), Num(main), Num(Hundred - main))
           [] variant = "wide" ->
                LET main == pixelsToPercentage(DEFAULT_WIDE_MAIN_WIDTH_PX, w)
                    panels == (Hundred - main) \div 2
                IN Size(Num(panels), Num(main), Num(panels))
           [] OTHER ->
                LET main == pixelsToPercentage(DEFAULT_REGULAR_MAIN_WIDTH_PX, w)
                    panels == (Hundred - main) \div 2
                IN Size(Num(panels), Num(main), Num(panels))

----------------------------------------------------------------------------
(* Normalizer *)

sanitizeValue(value) ==
    IF ~IsFinite(value) \/ value.v < 0 THEN 0 ELSE value.v

minLeftOf(w, hasInput) == IF hasInput THEN minPanelWidthPercentage(w) ELSE 0

(* Variant: the two outer panels are not clamped again after the trim *)
safePanelWidth_noReclamp(p, w, hasInput) ==
    LET minLeft == minLeftOf(w, hasInput)
        minRight == minPanelWidthPercentage(w)
        minMain == minMainPanelWidthPercentage(w)
        nl == Max(minLeft, sanitizeValue(p.left))
        nm == Max(minMain, sanitizeValue(p.main))
        nr == Max(minRight, sanitizeValue(p.right))
        total == nl + nm + nr
        overflow == total - Hundred
        trimLeft == IF nl + nr = 0 THEN NaN ELSE Num((nl * overflow) \div (nl + nr))
        trimRight == Sub(Num(overflow), trimLeft)
    IN IF total > Hundred
       THEN Size(Sub(Num(nl), trimLeft), Num(nm), Sub(Num(nr), trimRight))
       ELSE Size(Num(nl), Num(nm), Num(nr))

safePanelWidth(p, w, hasInput) ==
    LET minLeft == minLeftOf(w, hasInput)
        minRight == minPanelWidthPercentage(w)
        minMain == minMainPanelWidthPercentage(w)
        nl == Max(minLeft, sanitizeValue(p.left))
        nm == Max(minMain, sanitizeValue(p.main))
        nr == Max(minRight, sanitizeValue(p.right))
        total == nl + nm + nr
        overflow == total - Hundred
        \* left / (left + right) is 0/0 = NaN when both outer panels are 0
        trimLeft == IF nl + nr = 0 THEN NaN ELSE Num((nl * overflow) \div (nl + nr))
        trimRight == Sub(Num(overflow), trimLeft)
    IN IF total > Hundred
       THEN Size(MathMax(Num(minLeft), Sub(Num(nl), trimLeft)),
                 Num(nm),
                 MathMax(Num(minRight), Sub(Num(nr), trimRight)))
       ELSE Size(Num(nl), Num(nm), Num(nr))

----------------------------------------------------------------------------
(* Persistence: the store maps the key of a variant to an entry.  An entry *)
(* is absent, the empty string ("empty"), an unparseable string            *)
(* ("garbage"), a JSON value that parses to something falsy such as null   *)
(* ("falsy"), or a parsed object whose three fields are numbers or null.   *)

Absent == [kind |-> "absent", size |-> Size(Null, Null, Null)]
Empty == [kind |-> "empty", size |-> Size(Null, Null, Null)]
Garbage == [kind |-> "garbage", size |-> Size(Null, Null, Null)]
Falsy == [kind |-> "falsy", size |-> Size(Null, Null, Null)]
Obj(size) == [kind |-> "object", size |-> size]

localStorageKey(variant) ==
    CASE variant = "regular" -> "NDV_PANEL_WIDTH_REGULAR"
      [] variant = "wide" -> "NDV_PANEL_WIDTH_WIDE"
      [] variant = "inputless" -> "NDV_PANEL_WIDTH_INPUTLESS"
      [] variant = "dragless" -> "NDV_PANEL_WIDTH_DRAGLESS"
      [] OTHER -> "NDV_PANEL_WIDTH_UNKNOWN"

Keys == {localStorageKey(v) : v \in Variants}

(* JSON.stringify writes NaN and the infinities as null *)
JsonNumber(x) == IF IsFinite(x) THEN x ELSE Null
JSONstringify(p) ==
    Obj(Size(JsonNumber(p.left), JsonNumber(p.main), JsonNumber(p.right)))

(* jsonParse(string, {fallbackValue}): the parsed value, or the fallback   *)
(* when the string does not parse                                          *)
jsonParse(entry, fallbackValue) ==
    IF entry.kind = "garbage" THEN Obj(fallbackValue) ELSE entry

(* Variant: the accepted total is 100 instead of 200 *)
isValid_sum100(s) ==
    /\ IsFinite(s.left) /\ IsFinite(s.main) /\ IsFinite(s.right)
    /\ s.left.v >= 0 /\ s.main.v >= 0 /\ s.right.v >= 0
    /\ s.left.v + s.main.v + s.right.v <= Hundred

isValid(s) ==
    /\ IsFinite(s.left) /\ IsFinite(s.main) /\ IsFinite(s.right)
    /\ s.left.v >= 0 /\ s.main.v >= 0 /\ s.right.v >= 0
    /\ s.left.v + s.main.v + s.right.v <= 200 * Unit

persistPanelSize(store, panel, variant) ==
    [store EXCEPT ![localStorageKey(variant)] = JSONstringify(panel)]

(* Variant: an invalid stored value is left in the store *)
loadPanelSize_keepInvalid(store, variant, w, hasInput) ==
    LET key == localStorageKey(variant)
        stored == store[key]
        defaultSize == defaultPanelSize(variant, w)
        parsed == jsonParse(stored, defaultSize)
    IN IF stored.kind \notin {"absent", "empty"} /\ parsed.kind = "object" /\ isValid(parsed.size)
       THEN [panel |-> safePanelWidth(parsed.size, w, hasInput), store |-> store]
       ELSE [panel |-> safePanelWidth(defaultSize, w, hasInput), store |-> store]

(* loadPanelSize: the new live allocation and the new store *)
loadPanelSize(store, variant, w, hasInput) ==
    LET key == localStorageKey(variant)
        stored == store[key]
        defaultSize == defaultPanelSize(variant, w)
        parsed == jsonParse(stored, defaultSize)
    IN IF stored.kind \in {"absent", "empty"}
       THEN [panel |-> safePanelWidth(defaultSize, w, hasInput), store |-> store]
       ELSE IF parsed.kind = "object" /\ isValid(parsed.size)
            THEN [panel |-> safePanelWidth(parsed.size, w, hasInput), store |-> store]
            ELSE [panel |-> safePanelWidth(defaultSize, w, hasInput),
                  store |-> [store EXCEPT ![key] = Absent]]

----------------------------------------------------------------------------
(* Gestures: the allocation after the call *)

(* Variant: the change of main is taken from the side opposite to the     *)
(* dragged edge                                                            *)
onResize_oppositeSide(panel, width, direction, w, hasInput) ==
    LET newMain == Num(Max(minMainPanelWidthPercentage(w), pixelsToPercentage(width, w)))
        minPanel == Num(minPanelWidthPercentage(w))
        diffMain == Sub(newMain, panel.main)
        potentialLeft == Sub(panel.left, diffMain)
        potentialRight == Sub(panel.right, diffMain)
    IN CASE direction = "left" ->
               IF Lt(potentialLeft, minPanel) THEN panel
               ELSE safePanelWidth(Size(panel.left, newMain, MathMax(minPanel, potentialRight)),
                                   w, hasInput)
         [] direction = "right" ->
               IF Lt(potentialRight, minPanel) THEN panel
               ELSE safePanelWidth(Size(MathMax(minPanel, potentialLeft), newMain, panel.right),
                                   w, hasInput)
         [] OTHER -> panel

(* Variant: a resize that drives the dragged side below the minimum is    *)
(* clamped instead of rejected                                             *)
onResize_noReject(panel, width, direction, w, hasInput) ==
    LET newMain == Num(Max(minMainPanelWidthPercentage(w), pixelsToPercentage(width, w)))
        minPanel == Num(minPanelWidthPercentage(w))
        diffMain == Sub(newMain, panel.main)
    IN CASE direction = "left" ->
               safePanelWidth(Size(MathMax(minPanel, Sub(panel.left, diffMain)),
                                   newMain, panel.right), w, hasInput)
         [] direction = "right" ->
               safePanelWidth(Size(panel.left, newMain,
                                   MathMax(minPanel, Sub(panel.right, diffMain))),
                              w, hasInput)
         [] OTHER -> panel

onResize(panel, width, direction, w, hasInput) ==
    LET newMain == Num(Max(minMainPanelWidthPercentage(w), pixelsToPercentage(width, w)))
        minPanel == Num(minPanelWidthPercentage(w))
        initialLeft == panel.left
        initialMain == panel.main
        initialRight == panel.right
        diffMain == Sub(newMain, initialMain)
        potentialLeft == Sub(initialLeft, diffMain)
        potentialRight == Sub(initialRight, diffMain)
    IN CASE direction = "left" ->
               IF Lt(potentialLeft, minPanel) THEN panel
               ELSE safePanelWidth(Size(MathMax(minPanel, potentialLeft), newMain, initialRight),
                                   w, hasInput)
         [] direction = "right" ->
               IF Lt(potentialRight, minPanel) THEN panel
               ELSE safePanelWidth(Size(initialLeft, newMain, MathMax(minPanel, potentialRight)),
                                   w, hasInput)
         [] OTHER -> panel

(* Variant: the sanitized right width is assigned to main *)
onDrag_assignsMain(panel, x, w, hasInput) ==
    LET minPanel == Num(minPanelWidthPercentage(w))
        newLeft == MathMax(minPanel, Sub(Num(pixelsToPercentage(x, w)), Half(panel.main)))
        newRight == MathMax(minPanel, Sub(Sub(Num(Hundred), newLeft), panel.main))
        sanitized == safePanelWidth(Size(newLeft, panel.main, newRight), w, hasInput)
    IN IF Gt(Add(Add(newLeft, panel.main), newRight), Num(Hundred))
       THEN panel
       ELSE Size(sanitized.left, sanitized.right, panel.right)

onDrag(panel, x, w, hasInput) ==
    LET minPanel == Num(minPanelWidthPercentage(w))
        newLeft == MathMax(minPanel, Sub(Num(pixelsToPercentage(x, w)), Half(panel.main)))
        newRight == MathMax(minPanel, Sub(Sub(Num(Hundred), newLeft), panel.main))
        sanitized == safePanelWidth(Size(newLeft, panel.main, newRight), w, hasInput)
    IN IF Gt(Add(Add(newLeft, panel.main), newRight), Num(Hundred))
       THEN panel
       ELSE Size(sanitized.left, panel.main, sanitized.right)

----------------------------------------------------------------------------
(* State machine *)

InitialRef == Pct(40, 20, 40)

(* The record of an operation: its name and arguments, the state it       *)
(* started from, and rises, the number of times the running instance's     *)
(* containerWidth watcher has seen the width go from falsy to positive     *)
Before(op, arg, dir) ==
    [op |-> op, arg |-> arg, dir |-> dir, prev |-> last.op,
     panel |-> panelWidthPercentage, store |-> localStorage,
     width |-> containerWidth, paneType |-> paneType, rises |-> last.rises]

StoredSamples ==
    {Absent, Empty, Garbage, Falsy,
     Obj(Pct(30, 40, 30)), Obj(Pct(0, 5, 0)), Obj(Pct(50, 50, 50)),
     Obj(Pct(0, 100, 0)), Obj(Pct(0, 150, 0)), Obj(Pct(80, 40, 13)),
     Obj(Pct(0, 200, 0)), Obj(Pct(1, 200, 1)),
     Obj(Size(Null, Num(40 * Unit), Num(30 * Unit))),
     Obj(Size(Num(0 - 10 * Unit), Num(40 * Unit), Num(30 * Unit))),
     Obj(Size(Infinity, Infinity, Infinity))}

OtherSamples == {Absent, Obj(Pct(30, 40, 30)), Obj(Pct(1, 200, 1))}

(* useNdvLayout(options): the ref starts at {40, 20, 40} and the immediate *)
(* paneType watcher runs loadPanelSize before the composable returns       *)
Init ==
    \E w \in Widths, v \in Variants, h \in BOOLEAN,
       s \in StoredSamples, o \in OtherSamples :
        LET store0 == [k \in Keys |-> IF k = localStorageKey(v) THEN s ELSE o]
            loaded == loadPanelSize(store0, v, w, h)
        IN /\ containerWidth = w
           /\ paneType = v
           /\ hasInputPanel = h
           /\ panelWidthPercentage = loaded.panel
           /\ localStorage = loaded.store
           /\ last = [op |-> "mount", arg |-> 0, dir |-> "", prev |-> "",
                      panel |-> InitialRef, store |-> store0,
                      width |-> w, paneType |-> v, rises |-> 0]
           /\ steps = 0

(* The composable is set up again on the same container and store; the   *)
(* new instance's ref is loaded as in Init                                 *)
Mount ==
    /\ steps < MaxSteps
    /\ LET loaded == loadPanelSize(localStorage, paneType, containerWidth, hasInputPanel)
       IN /\ panelWidthPercentage' = loaded.panel
          /\ localStorage' = loaded.store
    /\ last' = [Before("mount", 0, "") EXCEPT !.rises = 0]
    /\ steps' = steps + 1
    /\ UNCHANGED <<containerWidth, paneType, hasInputPanel>>

OnResize ==
    /\ steps < MaxSteps
    /\ \E width \in ResizeWidths, direction \in Directions :
        /\ panelWidthPercentage' =
               onResize(panelWidthPercentage, width, direction, containerWidth, hasInputPanel)
        /\ last' = Before("onResize", width, direction)
    /\ steps' = steps + 1
    /\ UNCHANGED <<containerWidth, paneType, hasInputPanel, localStorage>>

OnDrag ==
    /\ steps < MaxSteps
    /\ \E x \in DragPositions :
        /\ panelWidthPercentage' = onDrag(panelWidthPercentage, x, containerWidth, hasInputPanel)
        /\ last' = Before("onDrag", x, "")
    /\ steps' = steps + 1
    /\ UNCHANGED <<containerWidth, paneType, hasInputPanel, localStorage>>

OnResizeEnd ==
    /\ steps < MaxSteps
    /\ localStorage' = persistPanelSize(localStorage, panelWidthPercentage, paneType)
    /\ last' = Before("onResizeEnd", 0, "")
    /\ steps' = steps + 1
    /\ UNCHANGED <<panelWidthPercentage, containerWidth, paneType, hasInputPanel>>

(* Variant: the watcher re-normalizes on every positive new width and    *)
(* never loads                                                             *)
onContainerWidth_neverLoads(panel, store, variant, newWidth, oldWidth, hasInput) ==
    IF newWidth = 0
    THEN [panel |-> panel, store |-> store]
    ELSE [panel |-> safePanelWidth(panel, newWidth, hasInput), store |-> store]

(* Variant: the watcher has no early return for a falsy new width *)
onContainerWidth_noEarlyReturn(panel, store, variant, newWidth, oldWidth, hasInput) ==
    IF oldWidth = 0
    THEN loadPanelSize(store, variant, newWidth, hasInput)
    ELSE [panel |-> safePanelWidth(panel, newWidth, hasInput), store |-> store]

(* watch(containerWidth): nothing for a falsy new width, a load when the   *)
(* old width was falsy, a re-normalization otherwise                       *)
onContainerWidth(panel, store, variant, newWidth, oldWidth, hasInput) ==
    IF newWidth = 0
    THEN [panel |-> panel, store |-> store]
    ELSE IF oldWidth = 0
         THEN loadPanelSize(store, variant, newWidth, hasInput)
         ELSE [panel |-> safePanelWidth(panel, newWidth, hasInput), store |-> store]

(* The container is resized: the watcher runs with the new and old width *)
WidthChangedTo(newWidth) ==
    LET watched == onContainerWidth(panelWidthPercentage, localStorage, paneType,
                                    newWidth, containerWidth, hasInputPanel)
    IN /\ containerWidth' = newWidth
       /\ panelWidthPercentage' = watched.panel
       /\ localStorage' = watched.store
       /\ last' = [Before("containerWidth", newWidth, "") EXCEPT
                      !.rises = IF containerWidth = 0 /\ newWidth > 0 THEN @ + 1 ELSE @]
       /\ UNCHANGED <<paneType, hasInputPanel>>

ContainerWidthChanged ==
    /\ steps < MaxSteps
    /\ \E newWidth \in Widths \ {containerWidth} : WidthChangedTo(newWidth)
    /\ steps' = steps + 1

(* Variant: the allocation of the old variant is carried over *)
PaneTypeChanged_carriesOver ==
    /\ steps < MaxSteps
    /\ \E v \in Variants \ {paneType} :
        /\ paneType' = v
        /\ panelWidthPercentage' =
               safePanelWidth(panelWidthPercentage, containerWidth, hasInputPanel)
        /\ last' = Before("paneType", 0, v)
    /\ steps' = steps + 1
    /\ UNCHANGED <<containerWidth, hasInputPanel, localStorage>>

(* watch(paneType): a load under the new variant's key *)
PaneTypeChanged ==
    /\ steps < MaxSteps
    /\ \E v \in Variants \ {paneType} :
        /\ paneType' = v
        /\ LET loaded == loadPanelSize(localStorage, v, containerWidth, hasInputPanel)
           IN /\ panelWidthPercentage' = loaded.panel
              /\ localStorage' = loaded.store
        /\ last' = Before("paneType", 0, v)
    /\ steps' = steps + 1
    /\ UNCHANGED <<containerWidth, hasInputPanel>>

Next ==
    \/ Mount
    \/ OnResize
    \/ OnDrag
    \/ OnResizeEnd
    \/ ContainerWidthChanged
    \/ PaneTypeChanged

Spec == Init /\ [][Next]_vars

----------------------------------------------------------------------------
(* One instance over a longer run of container resizes with drags between *)

MaxWidthSteps == 3

InitWidths ==
    /\ Init
    /\ \A k \in Keys \ {localStorageKey(paneType)} : last.store[k] = Absent

ContainerResized ==
    /\ steps < MaxWidthSteps
    /\ \E newWidth \in Widths \ {containerWidth} : WidthChangedTo(newWidth)
    /\ steps' = steps + 1

DraggedBetween ==
    /\ steps < MaxWidthSteps
    /\ \E x \in DragPositions :
        /\ panelWidthPercentage' = onDrag(panelWidthPercentage, x, containerWidth, hasInputPanel)
        /\ last' = Before("onDrag", x, "")
    /\ steps' = steps + 1
    /\ UNCHANGED <<containerWidth, paneType, hasInputPanel, localStorage>>

NextWidths ==
    \/ ContainerResized
    \/ DraggedBetween

SpecWidths == InitWidths /\ [][NextWidths]_vars

----------------------------------------------------------------------------
(* The normalizer on its own: any candidate triple, normalized twice *)

CandidateValues ==
    {NaN, Infinity, NegInfinity, Num(0 - 50), Num(0), Num(50), Num(130),
     Num(400), Num(500), Num(800), Num(1000), Num(1500)}

InitNormalize ==
    \E l \in CandidateValues, m \in CandidateValues, r \in CandidateValues,
       w \in Widths, h \in BOOLEAN :
        /\ containerWidth = w
        /\ paneType = "regular"
        /\ hasInputPanel = h
        /\ panelWidthPercentage = Size(l, m, r)
        /\ localStorage = [k \in Keys |-> Absent]
        /\ last = [op |-> "candidate", arg |-> 0, dir |-> "", prev |-> "",
                   panel |-> Size(l, m, r), store |-> [k \in Keys |-> Absent],
                   width |-> w, paneType |-> "regular", rises |-> 0]
        /\ steps = 0

Normalize ==
    /\ steps < 2
    /\ panelWidthPercentage' =
           safePanelWidth(panelWidthPercentage, containerWidth, hasInputPanel)
    /\ last' = Before("normalize", 0, "")
    /\ steps' = steps + 1
    /\ UNCHANGED <<containerWidth, paneType, hasInputPanel, localStorage>>

SpecNormalize == InitNormalize /\ [][Normalize]_vars

----------------------------------------------------------------------------
(* Vocabulary of the properties *)

SumOf(p) == Add(Add(p.left, p.main), p.right)

AllFinite(p) == IsFinite(p.left) /\ IsFinite(p.main) /\ IsFinite(p.right)

FiniteNonNegative(p) ==
    /\ AllFinite(p)
    /\ p.left.v >= 0 /\ p.main.v >= 0 /\ p.right.v >= 0

(* The validation as the specification words it: all fields finite, all  *)
(* >= 0, and a sum of at most 200                                          *)
PassesValidation(s) ==
    /\ FiniteNonNegative(s)
    /\ s.left.v + s.main.v + s.right.v <= 2 * Hundred

MeetsFloors(p, w, hasInput) ==
    /\ AllFinite(p)
    /\ p.main.v >= minMainPanelWidthPercentage(w)
    /\ p.right.v >= minPanelWidthPercentage(w)
    /\ p.left.v >= minLeftOf(w, hasInput)

(* The last operation ran loadPanelSize: a set-up, a variant change, or a  *)
(* container width becoming positive after being zero                      *)
LoadCycle ==
    \/ last.op \in {"mount", "paneType"}
    \/ last.op = "containerWidth" /\ last.width = 0 /\ containerWidth > 0

CurrentKey == localStorageKey(paneType)

(* What that load found under the current variant's key *)
Found == last.store[CurrentKey]

NormalizedDefault ==
    safePanelWidth(defaultPanelSize(paneType, containerWidth), containerWidth, hasInputPanel)

(* The allocation a load cycle is specified to produce: the normalized     *)
(* stored value when it is an object passing validation, the normalized    *)
(* default otherwise                                                       *)
ExpectedLoad ==
    IF Found.kind = "object" /\ PassesValidation(Found.size)
    THEN safePanelWidth(Found.size, containerWidth, hasInputPanel)
    ELSE NormalizedDefault

(* The in-memory allocation of before the operation, re-normalized at the  *)
(* current width                                                           *)
Renormalized == safePanelWidth(last.panel, containerWidth, hasInputPanel)

(* The last operation was the container width becoming positive after zero *)
WidthRose == last.op = "containerWidth" /\ last.width = 0 /\ containerWidth > 0

----------------------------------------------------------------------------
(* C1: in every reachable state the live allocation sums to 100:           *)
(* left + main + right = 100.                                              *)
C1_SumIsHundred == SumOf(panelWidthPercentage) = Num(Hundred)

(* C2: in every reachable state the three values of the live allocation    *)
(* are finite and >= 0, for any stored value and any container width,      *)
(* zero included.                                                          *)
C2_FiniteNonNegative == FiniteNonNegative(panelWidthPercentage)

(* C3: whenever the container width is positive, the live allocation       *)
(* respects the three floors: main >= 368px, right >= 120px and            *)
(* left >= 120px with an input panel, 0 without, as percentages.           *)
C3_Floors ==
    containerWidth > 0 =>
        MeetsFloors(panelWidthPercentage, containerWidth, hasInputPanel)

(* A load at a positive width raised a stored value below the floors *)
C3_Witness ==
    /\ containerWidth > 0
    /\ LoadCycle
    /\ Found.kind = "object" /\ PassesValidation(Found.size)
    /\ ~MeetsFloors(Found.size, containerWidth, hasInputPanel)
    /\ MeetsFloors(panelWidthPercentage, containerWidth, hasInputPanel)

(* C4: for every candidate triple the normalizer's result is finite,       *)
(* non-negative, at or above each floor when the width is positive, and    *)
(* sums to 100.                                                            *)
C4_NormalizeValid ==
    last.op = "normalize" =>
        /\ FiniteNonNegative(panelWidthPercentage)
        /\ containerWidth > 0 =>
               MeetsFloors(panelWidthPercentage, containerWidth, hasInputPanel)
        /\ SumOf(panelWidthPercentage) = Num(Hundred)

(* C5: the normalizer is idempotent at a fixed width and has-input flag:   *)
(* normalizing a normalized triple returns it unchanged.                   *)
C5_Idempotent ==
    (last.op = "normalize" /\ last.prev = "normalize") =>
        panelWidthPercentage = last.panel

(* C6: persistence round trip: onResizeEnd followed by a load for the same *)
(* variant at the same width yields normalize(a) for the saved allocation  *)
(* a, and the stored key is still present afterwards.                      *)
C6_RoundTrip ==
    (last.op = "mount" /\ last.prev = "onResizeEnd") =>
        /\ panelWidthPercentage =
               safePanelWidth(last.panel, containerWidth, hasInputPanel)
        /\ localStorage[CurrentKey].kind # "absent"

(* C7: a load that finds a stored object failing validation (a non-finite  *)
(* field, a negative field, or a sum above 200) ends with the current      *)
(* variant's key absent and the live allocation = normalize(default).      *)
C7_InvalidCleared ==
    (LoadCycle /\ Found.kind = "object" /\ ~PassesValidation(Found.size)) =>
        /\ localStorage[CurrentKey] = Absent
        /\ panelWidthPercentage = NormalizedDefault

(* A load found finite, non-negative fields whose sum exceeds 200 *)
C7_Witness ==
    /\ LoadCycle
    /\ Found.kind = "object"
    /\ FiniteNonNegative(Found.size)
    /\ ~PassesValidation(Found.size)
    /\ localStorage[CurrentKey] = Absent
    /\ panelWidthPercentage = NormalizedDefault

(* C8: a load that finds a stored object passing validation sets the live  *)
(* allocation to normalize(stored) and leaves the key in the store; a      *)
(* stored triple that meets every floor and sums to 100 is loaded          *)
(* unchanged.                                                              *)
C8_ValidLoaded ==
    (LoadCycle /\ Found.kind = "object" /\ PassesValidation(Found.size)) =>
        /\ panelWidthPercentage =
               safePanelWidth(Found.size, containerWidth, hasInputPanel)
        /\ localStorage[CurrentKey] = Found
        /\ (/\ MeetsFloors(Found.size, containerWidth, hasInputPanel)
            /\ SumOf(Found.size) = Num(Hundred))
               => panelWidthPercentage = Found.size

(* {30, 40, 30} stored at width 1000 is the live allocation after the load *)
C8_Witness ==
    /\ LoadCycle
    /\ containerWidth = 1000
    /\ Found = Obj(Pct(30, 40, 30))
    /\ panelWidthPercentage = Pct(30, 40, 30)
    /\ localStorage[CurrentKey] = Found

(* C9: a load that finds an unparseable string sets the live allocation to *)
(* normalize(default) and leaves the stored key as it was, whereas a       *)
(* parseable but structurally invalid value causes the key to be deleted.  *)
C9_ParseFailureKeepsKey ==
    /\ (LoadCycle /\ Found.kind = "garbage") =>
           /\ panelWidthPercentage = NormalizedDefault
           /\ localStorage[CurrentKey] = Found
    /\ (LoadCycle /\ (\/ Found.kind = "falsy"
                      \/ Found.kind = "object" /\ ~PassesValidation(Found.size))) =>
           localStorage[CurrentKey] = Absent

(* C10: an onResize whose width would drive the panel on the dragged side  *)
(* below its minimum, and any onResize with a direction other than left or *)
(* right, is a no-op: allocation and store are what they were.             *)
C10_NewMain ==
    Num(Max(minMainPanelWidthPercentage(containerWidth),
            pixelsToPercentage(last.arg, containerWidth)))

C10_Potential(side) == Sub(side, Sub(C10_NewMain, last.panel.main))

C10_Rejected ==
    \/ /\ last.dir = "left"
       /\ Lt(C10_Potential(last.panel.left),
             Num(minLeftOf(containerWidth, hasInputPanel)))
    \/ /\ last.dir = "right"
       /\ Lt(C10_Potential(last.panel.right),
             Num(minPanelWidthPercentage(containerWidth)))
    \/ last.dir \notin {"left", "right"}

C11_DragKeepsMain ==
    last.op = "onDrag" => panelWidthPercentage.main = last.panel.main

(* An accepted drag moved left and right and kept main *)
C11_Witness ==
    /\ last.op = "onDrag"
    /\ containerWidth > 0
    /\ panelWidthPercentage.left # last.panel.left
    /\ panelWidthPercentage.right # last.panel.right
    /\ panelWidthPercentage.main = last.panel.main

(* C12: only the first observed change of the container width from zero   *)
(* to a positive value performs a load cycle; every later width change to  *)
(* a positive value, a return from zero included, only re-normalizes the   *)
(* in-memory allocation and leaves the store alone.                        *)
C12_OnlyFirstRiseLoads ==
    (last.op = "containerWidth" /\ containerWidth > 0) =>
        IF WidthRose /\ last.rises = 1
        THEN panelWidthPercentage = ExpectedLoad
        ELSE /\ panelWidthPercentage = Renormalized
             /\ localStorage = last.store

(* C12, amended: every change of the container width from zero to a        *)
(* positive value performs a load cycle, the first and any later one;      *)
(* a change between two positive widths only re-normalizes the in-memory   *)
(* allocation and leaves the store alone.                                  *)
C12_EveryRiseLoads ==
    (last.op = "containerWidth" /\ containerWidth > 0) =>
        IF WidthRose
        THEN panelWidthPercentage = ExpectedLoad
        ELSE /\ panelWidthPercentage = Renormalized
             /\ localStorage = last.store

(* The width came back from zero a second time and the load replaced an   *)
(* in-memory allocation that re-normalizing would have kept as it was      *)
C12_Witness ==
    /\ WidthRose
    /\ last.rises >= 2
    /\ Renormalized = last.panel
    /\ panelWidthPercentage = ExpectedLoad
    /\ panelWidthPercentage # last.panel

(* C13: a change of the panel variant from v1 to v2 always runs a fresh    *)
(* load: afterwards the live allocation is the load result for v2 (the     *)
(* normalized valid stored value of v2, else the normalized default of     *)
(* v2), whatever v1's in-memory allocation was, and the change writes      *)
(* nothing to the store: every key keeps its value or is deleted.          *)
C13_VariantChangeLoads ==
    last.op = "paneType" =>
        /\ panelWidthPercentage = ExpectedLoad
        /\ \A k \in Keys : localStorage[k] = last.store[k] \/ localStorage[k] = Absent
        /\ localStorage[localStorageKey(last.paneType)] =
               last.store[localStorageKey(last.paneType)]

(* A variant change after a gesture: v1's in-memory allocation differed    *)
(* from what v1 had stored, v2's stored value was loaded, and v1's key     *)
(* kept its old value                                                      *)
C13_Witness ==
    /\ last.op = "paneType"
    /\ last.prev \in {"onResize", "onDrag"}
    /\ Found.kind = "object" /\ PassesValidation(Found.size)
    /\ panelWidthPercentage # last.panel
    /\ panelWidthPercentage # Renormalized
    /\ last.store[localStorageKey(last.paneType)] # Obj(last.panel)
    /\ panelWidthPercentage = safePanelWidth(Found.size, containerWidth, hasInputPanel)

(* C14: the store is written only by onResizeEnd, which overwrites the     *)
(* current variant's key with the live allocation; onResize, onDrag and    *)
(* container width changes leave the whole store unchanged; a load cycle   *)
(* can only delete the current variant's key, never write it; and no       *)
(* operation modifies the key of a variant other than the current one.     *)
C14_StoreFrame ==
    /\ last.op = "onResizeEnd" =>
           localStorage = [last.store EXCEPT ![CurrentKey] = JSONstringify(last.panel)]
    /\ last.op \in {"onResize", "onDrag", "containerWidth"} =>
           localStorage = last.store
    /\ LoadCycle =>
           localStorage[CurrentKey] \in {last.store[CurrentKey], Absent}
    /\ \A k \in Keys \ {CurrentKey} : localStorage[k] = last.store[k]

(* C15: the main panel never takes the full width after a load: with      *)
(* {left: 0, main: 100, right: 0} stored for the regular variant, an input *)
(* panel and a container width of 1000, the loaded allocation has          *)
(* main < 100, left > 0, right > 0 and left + main + right = 100.          *)
C15_MainNeverFull ==
    (/\ LoadCycle
     /\ paneType = "regular" /\ hasInputPanel /\ containerWidth = 1000
     /\ Found = Obj(Pct(0, 100, 0))) =>
        /\ AllFinite(panelWidthPercentage)
        /\ panelWidthPercentage.main.v < Hundred
        /\ panelWidthPercentage.left.v > 0
        /\ panelWidthPercentage.right.v > 0
        /\ SumOf(panelWidthPercentage) = Num(Hundred)

(* C16: the panel stays resizable after opening with corrupted stored      *)
(* data: with a stored value whose fields are all non-finite (regular,     *)
(* input panel, width 1000) the load yields a finite main with             *)
(* 0 < main < 100 and deletes the key, and a following onResize with       *)
(* width 600 and direction right changes main to another finite value.     *)
C16_ResizableAfterCorrupted ==
    /\ (/\ LoadCycle
        /\ paneType = "regular" /\ hasInputPanel /\ containerWidth = 1000
        /\ Found.kind = "object"
        /\ ~IsFinite(Found.size.left) /\ ~IsFinite(Found.size.main)
        /\ ~IsFinite(Found.size.right)) =>
           /\ IsFinite(panelWidthPercentage.main)
           /\ panelWidthPercentage.main.v > 0
           /\ panelWidthPercentage.main.v < Hundred
           /\ localStorage[CurrentKey] = Absent
    \* the state that load leaves: key absent, allocation = normalized default
    /\ (/\ last.op = "onResize" /\ last.arg = 600 /\ last.dir = "right"
        /\ last.prev = "mount"
        /\ paneType = "regular" /\ hasInputPanel /\ containerWidth = 1000
        /\ last.store[CurrentKey] = Absent
        /\ last.panel = NormalizedDefault) =>
           /\ IsFinite(panelWidthPercentage.main)
           /\ panelWidthPercentage.main # last.panel.main

(* C17: with a zero container width and nothing stored, a load yields      *)
(* exactly the variant's fixed fallback triple, unchanged by the           *)
(* normalizer: it sums to 100, main > 0 and right > 0 for every variant,   *)
(* left = 0 for inputless and left = right > 0 for every other variant; a  *)
(* variant that is neither inputless nor wide gets the regular triple.     *)
C17_ZeroWidthFallback ==
    (LoadCycle /\ containerWidth = 0 /\ Found = Absent) =>
        /\ panelWidthPercentage = defaultPanelSize(paneType, 0)
        /\ AllFinite(panelWidthPercentage)
        /\ SumOf(panelWidthPercentage) = Num(Hundred)
        /\ panelWidthPercentage.main.v > 0
        /\ panelWidthPercentage.right.v > 0
        /\ IF paneType = "inputless"
           THEN panelWidthPercentage.left.v = 0
           ELSE /\ panelWidthPercentage.left = panelWidthPercentage.right
                /\ panelWidthPercentage.left.v > 0
        /\ paneType \notin {"inputless", "wide"} =>
               panelWidthPercentage = defaultPanelSize("regular", 0)

(* A variant change at width zero loaded the fallback of a variant that is *)
(* neither regular, wide nor inputless, with an input panel present        *)
C17_Witness ==
    /\ last.op = "paneType"
    /\ containerWidth = 0
    /\ Found = Absent
    /\ hasInputPanel
    /\ paneType = "dragless"
    /\ panelWidthPercentage = Size(Num(325), Num(35 * Unit), Num(325))
    /\ panelWidthPercentage # last.panel

(* The triple of before the operation with each field sanitized and       *)
(* raised to its floor at the current width                                *)
ClampedLeft == Max(minLeftOf(containerWidth, hasInputPanel), sanitizeValue(last.panel.left))
ClampedMain == Max(minMainPanelWidthPercentage(containerWidth), sanitizeValue(last.panel.main))
ClampedRight == Max(minPanelWidthPercentage(containerWidth), sanitizeValue(last.panel.right))

(* C18: when the normalizer's clamped sum exceeds 100, main is never       *)
(* trimmed and the overflow is taken from left and right only, in          *)
(* proportion to their clamped values and not below their floors; the      *)
(* result sums to 100 whenever minLeft + main + minRight <= 100, so that   *)
(* {50, 50, 50} at width 1000 becomes a triple of sum 100 with main 50.    *)
C18_TrimOuterOnly ==
    (last.op = "normalize" /\ ClampedLeft + ClampedMain + ClampedRight > Hundred) =>
        LET overflow == ClampedLeft + ClampedMain + ClampedRight - Hundred
            minLeft == minLeftOf(containerWidth, hasInputPanel)
            minRight == minPanelWidthPercentage(containerWidth)
        IN /\ panelWidthPercentage.main = Num(ClampedMain)
           /\ ClampedLeft + ClampedRight > 0 =>
                  LET trimLeft == (ClampedLeft * overflow) \div (ClampedLeft + ClampedRight)
                  IN /\ panelWidthPercentage.left = Num(Max(minLeft, ClampedLeft - trimLeft))
                     /\ panelWidthPercentage.right =
                            Num(Max(minRight, ClampedRight - (overflow - trimLeft)))
           /\ minLeft + ClampedMain + minRight <= Hundred =>
                  /\ AllFinite(panelWidthPercentage)
                  /\ SumOf(panelWidthPercentage) = Num(Hundred)

(* The last onResize was accepted: its direction is left or right and the *)
(* width the dragged side would get is not below the minimum panel width   *)
ResizeAccepted ==
    /\ last.op = "onResize"
    /\ \/ /\ last.dir = "left"
          /\ ~Lt(C10_Potential(last.panel.left),
                 Num(minPanelWidthPercentage(containerWidth)))
       \/ /\ last.dir = "right"
          /\ ~Lt(C10_Potential(last.panel.right),
                 Num(minPanelWidthPercentage(containerWidth)))

(* C19: an accepted onResize(width, direction) from a state that satisfies *)
(* the floors and sums to 100 commits                                      *)
(* main = max(minMainPercentage, toPercentage(width)), changes the panel   *)
(* on the dragged side by exactly -(newMain - oldMain), leaves the         *)
(* opposite panel unchanged, and so keeps left + main + right.             *)
C19_AcceptedResize ==
    (/\ ResizeAccepted
     /\ MeetsFloors(last.panel, containerWidth, hasInputPanel)
     /\ SumOf(last.panel) = Num(Hundred)) =>
        /\ panelWidthPercentage.main = C10_NewMain
        /\ IF last.dir = "left"
           THEN /\ panelWidthPercentage.left = C10_Potential(last.panel.left)
                /\ panelWidthPercentage.right = last.panel.right
           ELSE /\ panelWidthPercentage.right = C10_Potential(last.panel.right)
                /\ panelWidthPercentage.left = last.panel.left
        /\ SumOf(panelWidthPercentage) = SumOf(last.panel)

(* A right resize at width 1000 was accepted and moved main and right *)
C19_Witness ==
    /\ ResizeAccepted
    /\ last.dir = "right"
    /\ containerWidth = 1000
    /\ MeetsFloors(last.panel, containerWidth, hasInputPanel)
    /\ SumOf(last.panel) = Num(Hundred)
    /\ panelWidthPercentage.main # last.panel.main
    /\ panelWidthPercentage.right # last.panel.right
    /\ panelWidthPercentage.left = last.panel.left

(* C20: the floor that decides whether a left-direction onResize is        *)
(* rejected is minLeftPercentage, which is 0 without an input panel: the   *)
(* resize is accepted (main becomes the new main) whenever                 *)
(* potentialLeft = currentLeft - (newMain - currentMain) is at or above    *)
(* that floor, and is rejected (state unchanged) only when it is below.    *)
C20_LeftFloor ==
    (/\ last.op = "onResize" /\ last.dir = "left"
     /\ AllFinite(last.panel)) =>
        IF Lt(C10_Potential(last.panel.left),
              Num(minLeftOf(containerWidth, hasInputPanel)))
        THEN panelWidthPercentage = last.panel
        ELSE panelWidthPercentage.main = C10_NewMain

(* The candidate widths of the last onDrag as the specification computes   *)
(* them, from the allocation of before the call                            *)
DragNewLeft ==
    Max(minLeftOf(containerWidth, hasInputPanel),
        pixelsToPercentage(last.arg, containerWidth) - (last.panel.main.v \div 2))

DragNewRight ==
    Max(minPanelWidthPercentage(containerWidth),
        Hundred - DragNewLeft - last.panel.main.v)

(* C21: onDrag(x) from a state that satisfies the floors computes          *)
(* newLeft = max(left minimum, toPercentage(x) - main/2) and               *)
(* newRight = max(minRightPercentage, 100 - newLeft - main); when          *)
(* newLeft + main + newRight > 100 the allocation is unchanged, otherwise  *)
(* left = newLeft and right = 100 - newLeft - main are committed, so the   *)
(* sum is 100 and right >= minRightPercentage; onDrag([300, 0]) from       *)
(* {29, 42, 29} at width 1000 gives {12, 42, 46}.                          *)
C21_Drag ==
    (/\ last.op = "onDrag"
     /\ MeetsFloors(last.panel, containerWidth, hasInputPanel)) =>
        IF DragNewLeft + last.panel.main.v + DragNewRight > Hundred
        THEN panelWidthPercentage = last.panel
        ELSE /\ panelWidthPercentage =
                    Size(Num(DragNewLeft), last.panel.main,
                         Num(Hundred - DragNewLeft - last.panel.main.v))
             /\ SumOf(panelWidthPercentage) = Num(Hundred)
             /\ panelWidthPercentage.right.v >= minPanelWidthPercentage(containerWidth)

(* C22: a change of the container width to zero is a no-op: the live      *)
(* allocation and the store are what they were, with no load and no        *)
(* re-normalization; a change between two positive widths leaves the store *)
(* as it was and its result depends on the in-memory allocation alone.     *)
C22_WidthFrame ==
    last.op = "containerWidth" =>
        /\ containerWidth = 0 =>
               /\ panelWidthPercentage = last.panel
               /\ localStorage = last.store
        /\ (containerWidth > 0 /\ last.width > 0) =>
               /\ localStorage = last.store
               /\ panelWidthPercentage = Renormalized

(* The width dropped to zero and the allocation was kept although both a   *)
(* re-normalization and a load at width zero would have changed it         *)
C22_Witness ==
    /\ last.op = "containerWidth"
    /\ containerWidth = 0
    /\ last.width > 0
    /\ panelWidthPercentage = last.panel
    /\ localStorage = last.store
    /\ Renormalized # last.panel
    /\ ExpectedLoad # last.panel

====
